---- MODULE Spec2Model ----
(***************************************************************************)
(* Model of tools/versioner/src/versioner.cpp: the worker pool of          *)
(* compileHeaders, the two checkers (sanityCheck, checkVersions) and the   *)
(* tail of main that turns their results into the exit status.             *)
(*                                                                         *)
(* Spec          compileHeaders: the calling thread and its workers.       *)
(* SpecSanity    main from the return of compileHeaders through            *)
(*               sanityCheck, over bounded HeaderDatabases.                *)
(* SpecVersions  the same through checkVersions, over bounded              *)
(*               HeaderDatabases and NdkSymbolDatabases.                   *)
(* SpecMain      the same to the return of main, over all option           *)
(*               combinations.                                             *)
(***************************************************************************)
EXTENDS Integers, FiniteSets, Sequences, TLC

\* constexpr size_t thread_count = 8;
thread_count == 8

\* Largest configuration matrix explored: MaxExtra more than the pool holds.
MaxExtra == 1

MaxTypes == thread_count + MaxExtra

Slots == 0 .. (thread_count - 1)

NoHolder == -1

VARIABLES
  \* ---- compileHeaders
  threads_created,  \* size_t threads_created
  threads,          \* std::vector<std::thread> threads: slot -> "empty" | "joinable" | "joined"
  threads_size,     \* threads.size()
  wpc,              \* position of the worker thread last started in each slot
  mutex,            \* std::mutex mutex: the slot of the holder, or NoHolder
  errors,           \* bool errors
  jidx,             \* iterator of "for (auto& thread : threads)"
  parsed,           \* history: how many Header Parser runs each type got
  warned,           \* history: some AST carried warnings or errors
  \* ---- main
  mpc,              \* position of the main thread
  failed,           \* bool failed of main, written through *failed
  types,            \* std::set<CompilationType> compilation_types
  database,         \* HeaderDatabase::symbols of declaration_database
  symbol_database,  \* NdkSymbolDatabase symbol_database
  verbose,          \* bool verbose (-v)
  dump,             \* bool dump (-d)
  platform_dir,     \* !platform_dir.empty()
  output_path,      \* !preprocessor_output_path.empty() (-o)
  force,            \* bool force (-f)
  parse_failed,     \* history: failed as compileHeaders left it
  sanity,           \* what sanityCheck returned and printed, or NotRun
  versions,         \* what checkVersions returned and printed, or NotRun
  exit_status       \* the process exit status, or NoStatus while it runs

poolvars == <<threads_created, threads, threads_size, wpc, mutex, errors, jidx,
              parsed, warned>>

inputvars == <<types, database, symbol_database, verbose, dump, platform_dir,
               output_path, force, parse_failed>>

mainvars == <<inputvars, sanity, versions, exit_status>>

vars == <<poolvars, mpc, failed, mainvars>>

NotRun == [run |-> FALSE]

NoStatus == -1

(***************************************************************************)
(* compileHeaders                                                          *)
(***************************************************************************)

\* The slot the loop body works on: thread_id = threads_created++, reduced
\* modulo thread_count once it has reached the pool size.
ThreadId == (threads_created - 1) % thread_count

\* for (const auto& type : types) { size_t thread_id = threads_created++;
\*   if (thread_id >= thread_count) { thread_id = thread_id % thread_count; ...
\* The matrix is the caller's: the loop is entered for as long as the set
\* has another element (at most MaxTypes of them here).
\* The same, testing thread_id > thread_count.
LoopBeginOffByOne ==
  /\ mpc = "loop"
  /\ threads_created < MaxTypes
  /\ threads_created' = threads_created + 1
  /\ mpc' = IF threads_created > thread_count THEN "join" ELSE "spawn"
  /\ UNCHANGED <<threads, threads_size, wpc, mutex, errors, jidx, parsed, warned,
                 failed, mainvars>>

LoopBegin ==
  /\ mpc = "loop"
  /\ threads_created < MaxTypes
  /\ threads_created' = threads_created + 1
  /\ mpc' = IF threads_created >= thread_count THEN "join" ELSE "spawn"
  /\ UNCHANGED <<threads, threads_size, wpc, mutex, errors, jidx, parsed, warned,
                 failed, mainvars>>

\* The join of the loop body not waiting for the worker of the slot.
LoopJoinNoWait ==
  /\ mpc = "join"
  /\ IF threads[ThreadId] = "joinable"
       THEN /\ threads' = [threads EXCEPT ![ThreadId] = "joined"]
            /\ mpc' = "spawn"
       ELSE /\ mpc' = "crashed"
            /\ UNCHANGED threads
  /\ UNCHANGED <<threads_created, threads_size, wpc, mutex, errors, jidx, parsed,
                 warned, failed, mainvars>>

\* threads[thread_id].join(): returns once the worker has finished; on a
\* thread that is not joinable it throws and the process terminates.
LoopJoin ==
  /\ mpc = "join"
  /\ IF threads[ThreadId] = "joinable"
       THEN /\ wpc[ThreadId] = "done"
            /\ threads' = [threads EXCEPT ![ThreadId] = "joined"]
            /\ mpc' = "spawn"
       ELSE /\ mpc' = "crashed"
            /\ UNCHANGED threads
  /\ UNCHANGED <<threads_created, threads_size, wpc, mutex, errors, jidx, parsed,
                 warned, failed, mainvars>>

\* threads[thread_id] = std::thread(lambda, type): the worker starts with
\* tool.buildASTs (one Header Parser run for this type); move-assignment
\* onto a joinable thread calls std::terminate.
LoopSpawn ==
  /\ mpc = "spawn"
  /\ IF threads[ThreadId] = "joinable"
       THEN /\ mpc' = "crashed"
            /\ UNCHANGED <<threads, wpc, parsed>>
       ELSE /\ threads' = [threads EXCEPT ![ThreadId] = "joinable"]
            /\ wpc' = [wpc EXCEPT ![ThreadId] = "asts"]
            /\ parsed' = [parsed EXCEPT ![threads_created] = @ + 1]
            /\ mpc' = "loop"
  /\ UNCHANGED <<threads_created, threads_size, mutex, errors, jidx, warned, failed,
                 mainvars>>

\* The end of the loop without the resize: the vector keeps thread_count
\* elements.
ResizeSkipped ==
  /\ mpc = "loop"
  /\ jidx' = 0
  /\ mpc' = "joinall"
  /\ UNCHANGED <<threads_created, threads, threads_size, wpc, mutex, errors, parsed,
                 warned, failed, mainvars>>

\* The set has no further element:
\* if (threads_created < thread_count) threads.resize(threads_created);
Resize ==
  /\ mpc = "loop"
  /\ threads_size' = IF threads_created < thread_count THEN threads_created
                                                       ELSE threads_size
  /\ jidx' = 0
  /\ mpc' = "joinall"
  /\ UNCHANGED <<threads_created, threads, wpc, mutex, errors, parsed, warned, failed,
                 mainvars>>

\* The final loop with detach() in place of join(): it does not wait.
JoinAllDetach ==
  /\ mpc = "joinall"
  /\ jidx < threads_size
  /\ threads' = [threads EXCEPT ![jidx] = "joined"]
  /\ jidx' = jidx + 1
  /\ UNCHANGED <<threads_created, threads_size, wpc, mutex, errors, parsed, warned,
                 mpc, failed, mainvars>>

\* for (auto& thread : threads) thread.join();
JoinAll ==
  /\ mpc = "joinall"
  /\ jidx < threads_size
  /\ IF threads[jidx] = "joinable"
       THEN /\ wpc[jidx] = "done"
            /\ threads' = [threads EXCEPT ![jidx] = "joined"]
            /\ jidx' = jidx + 1
            /\ mpc' = "joinall"
       ELSE /\ mpc' = "crashed"
            /\ UNCHANGED <<threads, jidx>>
  /\ UNCHANGED <<threads_created, threads_size, wpc, mutex, errors, parsed, warned,
                 failed, mainvars>>

\* A return that leaves *failed alone.
ReturnDropsErrors ==
  /\ mpc = "joinall"
  /\ jidx = threads_size
  /\ mpc' = "returned"
  /\ UNCHANGED <<poolvars, failed, mainvars>>

\* if (errors) { printf(...); *failed = errors; }  return result;
Return ==
  /\ mpc = "joinall"
  /\ jidx = threads_size
  /\ failed' = IF errors THEN errors ELSE failed
  /\ mpc' = "returned"
  /\ UNCHANGED <<poolvars, mainvars>>

\* The head of "for (const auto& ast : asts)" with an AST left whose
\* diagnostics engine counts no warning and no error: the if is skipped.
WorkerClean(s) ==
  /\ wpc[s] = "asts"
  /\ wpc' = [wpc EXCEPT ![s] = "parse"]
  /\ UNCHANGED <<threads_created, threads, threads_size, mutex, errors, jidx, parsed,
                 warned, mpc, failed, mainvars>>

\* The same with warnings or errors:
\*   std::unique_lock<std::mutex> l(mutex); errors = true; printf(...);
\* The worker waits here until the mutex is free.
WorkerReport(s) ==
  /\ wpc[s] = "asts"
  /\ mutex = NoHolder
  /\ mutex' = s
  /\ errors' = TRUE
  /\ warned' = TRUE
  /\ wpc' = [wpc EXCEPT ![s] = "locked"]
  /\ UNCHANGED <<threads_created, threads, threads_size, jidx, parsed, mpc, failed,
                 mainvars>>

\* The lock declared in the scope of the for body: still held at parseAST.
WorkerKeepsLock(s) ==
  /\ wpc[s] = "locked"
  /\ wpc' = [wpc EXCEPT ![s] = "parse"]
  /\ UNCHANGED <<threads_created, threads, threads_size, mutex, errors, jidx, parsed,
                 warned, mpc, failed, mainvars>>

\* The closing brace of the if: l goes out of scope and releases the mutex.
WorkerUnlock(s) ==
  /\ wpc[s] = "locked"
  /\ mutex' = NoHolder
  /\ wpc' = [wpc EXCEPT ![s] = "parse"]
  /\ UNCHANGED <<threads_created, threads, threads_size, errors, jidx, parsed, warned,
                 mpc, failed, mainvars>>

\* result->parseAST(type, ast.get()) is entered ...
ParseASTBegin(s) ==
  /\ wpc[s] = "parse"
  /\ wpc' = [wpc EXCEPT ![s] = "insert"]
  /\ UNCHANGED <<threads_created, threads, threads_size, mutex, errors, jidx, parsed,
                 warned, mpc, failed, mainvars>>

\* ... and returns: back to the head of the for loop.
ParseASTEnd(s) ==
  /\ wpc[s] = "insert"
  /\ wpc' = [wpc EXCEPT ![s] = "asts"]
  /\ UNCHANGED <<threads_created, threads, threads_size, mutex, errors, jidx, parsed,
                 warned, mpc, failed, mainvars>>

\* The head of the for loop with no AST left: the lambda returns.
WorkerExit(s) ==
  /\ wpc[s] = "asts"
  /\ wpc' = [wpc EXCEPT ![s] = "done"]
  /\ UNCHANGED <<threads_created, threads, threads_size, mutex, errors, jidx, parsed,
                 warned, mpc, failed, mainvars>>

Worker(s) ==
  \/ WorkerClean(s)
  \/ WorkerReport(s)
  \/ WorkerUnlock(s)
  \/ ParseASTBegin(s)
  \/ ParseASTEnd(s)
  \/ WorkerExit(s)

(***************************************************************************)
(* The configuration matrix                                                *)
(***************************************************************************)

\* Arch.h: the architectures in their enumeration order, and the API level
\* below which each is no target.
ArchOrder == <<"arm", "arm64">>

supported_archs == {ArchOrder[i] : i \in 1 .. Len(ArchOrder)}

arch_min_api == [a \in supported_archs |-> IF a = "arm" THEN 9 ELSE 21]

\* The API levels explored (two of the supported levels).
supported_levels == {9, 21}

\* for arch, for api_level (skipping api_level < min_api), for { 32, 64 }
generateCompilationTypes(selected_architectures, selected_levels) ==
  {t \in [arch : selected_architectures, api_level : selected_levels,
          file_offset_bits : {32, 64}] : ~(t.api_level < arch_min_api[t.arch])}

ArchIndex(a) == CHOOSE i \in 1 .. Len(ArchOrder) : ArchOrder[i] = a

\* operator< of CompilationType: the order std::set and std::map iterate in
TypeLess(a, b) ==
  \/ ArchIndex(a.arch) < ArchIndex(b.arch)
  \/ /\ a.arch = b.arch
     /\ \/ a.api_level < b.api_level
        \/ /\ a.api_level = b.api_level
           /\ a.file_offset_bits < b.file_offset_bits

RECURSIVE SortedTypes(_)
SortedTypes(S) ==
  IF S = {} THEN <<>>
  ELSE LET m == CHOOSE x \in S : \A y \in S \ {x} : TypeLess(x, y)
       IN <<m>> \o SortedTypes(S \ {m})

\* std::map<std::string, ...> iterates in the order of the names
NameOrder == <<"bar", "foo">>

Names == {NameOrder[i] : i \in 1 .. Len(NameOrder)}

SortedNames(S) == SelectSeq(NameOrder, LAMBDA n : n \in S)

(***************************************************************************)
(* Declarations and their availability (DeclarationDatabase)               *)
(***************************************************************************)

\* An availability attribute of a declaration site.
Attr(axis, scope, level) == [axis |-> axis, scope |-> scope, level |-> level]

Axes == {"introduced", "deprecated", "obsoleted"}

\* The values a set of attributes gives one axis in one scope.
CellValues(attrs, axis, scope) ==
  {a.level : a \in {x \in attrs : x.axis = axis /\ x.scope = scope}}

CellValue(attrs, axis, scope) ==
  IF CellValues(attrs, axis, scope) = {} THEN 0
  ELSE CHOOSE v \in CellValues(attrs, axis, scope) : TRUE

\* An axis is set globally and for an architecture, or a cell has two values.
Incompatible(attrs) ==
  \/ \E x \in Axes : \E a \in supported_archs :
       CellValues(attrs, x, "global") # {} /\ CellValues(attrs, x, a) # {}
  \/ \E x \in Axes : \E s \in supported_archs \cup {"global"} :
       Cardinality(CellValues(attrs, x, s)) > 1

\* DeclarationAvailability: global_availability and arch_availability
AvailabilityOf(attrs) ==
  [global_availability |->
     [introduced |-> CellValue(attrs, "introduced", "global"),
      deprecated |-> CellValue(attrs, "deprecated", "global"),
      obsoleted |-> CellValue(attrs, "obsoleted", "global")],
   arch_availability |->
     [a \in supported_archs |->
        [introduced |-> CellValue(attrs, "introduced", a),
         deprecated |-> CellValue(attrs, "deprecated", a),
         obsoleted |-> CellValue(attrs, "obsoleted", a),
         future |-> (CellValues(attrs, "future", a) # {})]]]

\* DeclarationAvailability::empty()
AvailabilityEmpty(av) ==
  /\ \A x \in Axes : av.global_availability[x] = 0
  /\ \A a \in supported_archs :
       /\ \A x \in Axes : av.arch_availability[a][x] = 0
       /\ ~av.arch_availability[a].future

\* Declaration::calculateAvailability(&availability)
calculateDeclarationAvailability(decl) ==
  [ok |-> ~Incompatible(decl.availability),
   availability |-> AvailabilityOf(decl.availability)]

SymbolAttrs(symbol) ==
  UNION {symbol.declarations[t].availability : t \in DOMAIN symbol.declarations}

\* Symbol::calculateAvailability(&availability): the union of the
\* declarations' availability
calculateSymbolAvailability(symbol) ==
  [ok |-> ~Incompatible(SymbolAttrs(symbol)),
   availability |-> AvailabilityOf(SymbolAttrs(symbol))]

\* Symbol::hasDeclaration(type)
hasDeclaration(symbol, type) == type \in DOMAIN symbol.declarations

(***************************************************************************)
(* sanityCheck                                                             *)
(***************************************************************************)

\* The body of "for (const auto& decl_it : symbol.declarations)": keys are
\* the declarations not yet visited, inline_definition is non-null.  The
\* result names the fprintf that precedes "return false", or "none".
RECURSIVE checkDeclarations(_, _, _)
checkDeclarations(symbol, keys, inline_definition) ==
  IF keys = <<>> THEN "none"
  ELSE LET decl == symbol.declarations[Head(keys)]
           calc == calculateDeclarationAvailability(decl)
       IN IF decl.is_definition /\ inline_definition
            THEN "multiple definitions"
          ELSE IF ~calc.ok
            THEN "failed to calculate availability"
          ELSE IF decl.is_definition /\ ~AvailabilityEmpty(calc.availability)
            THEN "inline definition has non-empty versioning information"
          ELSE checkDeclarations(symbol, Tail(keys),
                                 inline_definition \/ decl.is_definition)

\* A checkSymbol that never looks at the definitions' own availability.
checkSymbolNoInlineRule(symbol) ==
  LET decls == symbol.declarations
      defs == {k \in DOMAIN decls : decls[k].is_definition}
  IN IF Cardinality(defs) > 1
       THEN [ok |-> FALSE, report |-> "multiple definitions"]
     ELSE IF \E k \in DOMAIN decls : ~calculateDeclarationAvailability(decls[k]).ok
       THEN [ok |-> FALSE, report |-> "failed to calculate availability"]
     ELSE IF ~calculateSymbolAvailability(symbol).ok
       THEN [ok |-> FALSE, report |-> "inconsistent availability"]
     ELSE [ok |-> TRUE, report |-> "none"]

\* static bool checkSymbol(const Symbol& symbol)
checkSymbol(symbol) ==
  LET r == checkDeclarations(symbol, SortedTypes(DOMAIN symbol.declarations), FALSE)
  IN IF r # "none" THEN [ok |-> FALSE, report |-> r]
     ELSE IF ~calculateSymbolAvailability(symbol).ok
       THEN [ok |-> FALSE, report |-> "inconsistent availability"]
     ELSE [ok |-> TRUE, report |-> "none"]

\* The loop of sanityCheck: error and what checkSymbol has printed so far.
RECURSIVE sanityLoop(_, _, _, _)
sanityLoop(db, names, error, reports) ==
  IF names = <<>> THEN [run |-> TRUE, ok |-> ~error, reports |-> reports]
  ELSE LET c == checkSymbol(db[Head(names)])
       IN IF ~c.ok
            THEN sanityLoop(db, Tail(names), TRUE,
                            reports \cup {<<Head(names), c.report>>})
            ELSE sanityLoop(db, Tail(names), error, reports)

\* A sanityCheck that returns at the first symbol that fails.
RECURSIVE sanityLoopShortCircuit(_, _, _, _)
sanityLoopShortCircuit(db, names, error, reports) ==
  IF names = <<>> \/ error THEN [run |-> TRUE, ok |-> ~error, reports |-> reports]
  ELSE LET c == checkSymbol(db[Head(names)])
       IN IF ~c.ok
            THEN sanityLoopShortCircuit(db, Tail(names), TRUE,
                                        reports \cup {<<Head(names), c.report>>})
            ELSE sanityLoopShortCircuit(db, Tail(names), error, reports)

sanityCheckShortCircuit(db) ==
  sanityLoopShortCircuit(db, SortedNames(DOMAIN db), FALSE, {})

\* static bool sanityCheck(const HeaderDatabase* database)
sanityCheck(db) == sanityLoop(db, SortedNames(DOMAIN db), FALSE, {})

(***************************************************************************)
(* checkVersions                                                           *)
(***************************************************************************)

\* bool should_be_available, as the loop body leaves it for one type
shouldBeAvailable(symbol, symbol_availability, type) ==
  LET global_availability == symbol_availability.global_availability
      arch_availability == symbol_availability.arch_availability[type.arch]
  IN /\ ~(global_availability.introduced # 0
            /\ global_availability.introduced > type.api_level)
     /\ ~(arch_availability.introduced # 0
            /\ arch_availability.introduced > type.api_level)
     /\ ~(global_availability.obsoleted # 0
            /\ global_availability.obsoleted <= type.api_level)
     /\ ~(arch_availability.obsoleted # 0
            /\ arch_availability.obsoleted <= type.api_level)
     /\ hasDeclaration(symbol, type)

\* The types of "for (const CompilationType& type : types)" that reach the
\* comparison: if (arch_availability.future) continue;
ComparedTypes(symbol_availability, tys) ==
  {t \in tys : ~symbol_availability.arch_availability[t.arch].future}

\* The first loop, over header_database->symbols.  acc holds
\* completely_unavailable, missing_availability and extra_availability (as
\* sets of <<name, type>>), and visited: the <<name, type>> pairs the loop
\* has dealt with, by comparison or by one of its two "continue".
RECURSIVE symbolLoop(_, _, _, _, _)
symbolLoop(tys, db, sdb, names, acc) ==
  IF names = <<>> THEN acc
  ELSE LET symbol_name == Head(names)
           symbol == db[symbol_name]
           calc == calculateSymbolAvailability(symbol)
           all == {<<symbol_name, t>> : t \in tys}
       IN IF ~calc.ok
            THEN [acc EXCEPT !.aborted = TRUE]   \* errx(1, "failed to calculate ...")
          ELSE IF symbol_name \notin DOMAIN sdb
            THEN symbolLoop(tys, db, sdb, Tail(names),
                   [acc EXCEPT !.completely_unavailable = @ \cup {symbol_name},
                               !.visited = @ \cup all])
          ELSE LET compared == ComparedTypes(calc.availability, tys)
                   should == {t \in compared :
                                shouldBeAvailable(symbol, calc.availability, t)}
                   is == {t \in compared : t \in sdb[symbol_name]}
               IN symbolLoop(tys, db, sdb, Tail(names),
                    [acc EXCEPT
                       !.extra_availability =
                          @ \cup {<<symbol_name, t>> : t \in is \ should},
                       !.missing_availability =
                          @ \cup {<<symbol_name, t>> : t \in should \ is},
                       !.visited = @ \cup all])

\* The second loop, over symbol_database: what is printed, and failed.
SymbolErrors(sdb, acc, verb) ==
  {n \in DOMAIN sdb :
     \/ \E p \in acc.missing_availability : p[1] = n
     \/ verb /\ \E p \in acc.extra_availability : p[1] = n}

EmptyAcc ==
  [aborted |-> FALSE, completely_unavailable |-> {}, missing_availability |-> {},
   extra_availability |-> {}, visited |-> {}]

checkVersionsResult(tys, db, sdb, verb, acc) ==
  [run |-> TRUE,
   \* errx(1, ...) in the first loop, or for a symbol_error on a name the
   \* header database does not hold
   aborted |-> acc.aborted \/ (SymbolErrors(sdb, acc, verb) \ DOMAIN db # {}),
   ok |-> SymbolErrors(sdb, acc, verb) = {},
   printed |-> SymbolErrors(sdb, acc, verb),
   completely_unavailable |-> acc.completely_unavailable,
   missing_availability |-> acc.missing_availability,
   extra_availability |-> acc.extra_availability,
   visited |-> acc.visited]

\* A checkVersions that fails the run for a completely unavailable symbol.
checkVersionsFailUnavailable(tys, db, sdb, verb) ==
  LET acc == symbolLoop(tys, db, sdb, SortedNames(DOMAIN db), EmptyAcc)
      r == checkVersionsResult(tys, db, sdb, verb, acc)
  IN [r EXCEPT !.ok = r.ok /\ acc.completely_unavailable = {}]

\* A checkVersions that goes on when a symbol's availability fails.
checkVersionsNeverAborts(tys, db, sdb, verb) ==
  LET acc == symbolLoop(tys, db, sdb, SortedNames(DOMAIN db), EmptyAcc)
  IN [checkVersionsResult(tys, db, sdb, verb, acc) EXCEPT !.aborted = FALSE]

\* static bool checkVersions(types, header_database, symbol_database)
checkVersions(tys, db, sdb, verb) ==
  checkVersionsResult(tys, db, sdb, verb,
                      symbolLoop(tys, db, sdb, SortedNames(DOMAIN db), EmptyAcc))

(***************************************************************************)
(* main, from the return of compileHeaders                                 *)
(***************************************************************************)

\* if (dump) declaration_database->dump(header_dir + "/");
MainDump ==
  /\ mpc = "returned"
  /\ dump
  /\ mpc' = "preprocess"
  /\ UNCHANGED <<poolvars, failed, mainvars>>

\* if (!sanityCheck(declaration_database.get())) { printf(...); failed = true; }
MainSanityCheck ==
  /\ mpc = "returned"
  /\ ~dump
  /\ sanity' = sanityCheck(database)
  /\ failed' = (failed \/ ~sanity'.ok)
  /\ mpc' = IF platform_dir THEN "versions" ELSE "preprocess"
  /\ UNCHANGED <<poolvars, inputvars, versions, exit_status>>

\* if (!platform_dir.empty()) { if (!checkVersions(...)) { printf(...); failed = true; } }
\* errx inside checkVersions ends the process with status 1.
MainCheckVersions ==
  /\ mpc = "versions"
  /\ versions' = checkVersions(types, database, symbol_database, verbose)
  /\ IF versions'.aborted
       THEN /\ mpc' = "exited"
            /\ exit_status' = 1
            /\ UNCHANGED failed
       ELSE /\ mpc' = "preprocess"
            /\ failed' = (failed \/ ~versions'.ok)
            /\ UNCHANGED exit_status
  /\ UNCHANGED <<poolvars, inputvars, sanity>>

RunsPreprocessor == output_path /\ (force \/ ~failed)

\* if (!preprocessor_output_path.empty() && (force || !failed))
\*   failed = !preprocessHeaders(...);
MainPreprocess ==
  /\ mpc = "preprocess"
  /\ RunsPreprocessor
  /\ \E preprocessed \in BOOLEAN : failed' = ~preprocessed
  /\ mpc' = "return"
  /\ UNCHANGED <<poolvars, mainvars>>

\* return failed;
MainReturn ==
  /\ \/ mpc = "return"
     \/ mpc = "preprocess" /\ ~RunsPreprocessor
  /\ exit_status' = IF failed THEN 1 ELSE 0
  /\ mpc' = "exited"
  /\ UNCHANGED <<poolvars, failed, inputvars, sanity, versions>>

(***************************************************************************)
(* Bounded inputs                                                          *)
(***************************************************************************)

\* Declarations a HeaderDatabase may hold in all: MaxDecls.
MaxDecls == 2

\* The availability attributes a declaration site may carry.
AttrSets ==
  { {},
    {Attr("introduced", "global", 21)},
    {Attr("introduced", "arm", 21)},
    {Attr("introduced", "global", 9), Attr("introduced", "arm", 21)},
    {Attr("obsoleted", "global", 21)},
    {Attr("future", "arm", 0)} }

DeclKinds(defs) == [is_definition : defs, availability : AttrSets]

SubsetsOfSize(S, k) == {D \in SUBSET S : Cardinality(D) = k}

\* HeaderDatabase::symbols for the declarations found of each name: a name
\* with no declaration has no Symbol.
MakeDatabase(decls) ==
  [n \in {m \in Names : DOMAIN decls[m] # {}} |-> [declarations |-> decls[n]]]

\* database is a HeaderDatabase of at most max declarations in all, over the
\* two names, each declaration of one of the kinds.
DatabaseOfAtMost(max, kinds) ==
  \E k1, k2 \in 0 .. max :
    /\ k1 + k2 <= max
    /\ \E D1 \in SubsetsOfSize(types, k1), D2 \in SubsetsOfSize(types, k2) :
         \E f1 \in [D1 -> kinds], f2 \in [D2 -> kinds] :
           database = MakeDatabase((NameOrder[1] :> f1) @@ (NameOrder[2] :> f2))

\* What the platform may export a symbol for: everywhere, or from level 21,
\* or for 32-bit arm only.
PlatformAvailabilities(tys) ==
  { tys,
    {t \in tys : t.api_level >= 21 /\ t.file_offset_bits = 64},
    {t \in tys : t.arch = "arm" /\ t.file_offset_bits = 32} }

SymbolDatabases(tys) ==
  UNION {[N -> PlatformAvailabilities(tys)] : N \in SUBSET Names}

\* The matrices explored: one architecture at both levels, and both
\* architectures at the level both support.
Matrices ==
  { generateCompilationTypes({"arm"}, supported_levels),
    generateCompilationTypes(supported_archs, {21}) }

Min(a, b) == IF a < b THEN a ELSE b

\* The pool as compileHeaders leaves it for a matrix of n types, no AST
\* having carried warnings unless failed says so.
InitReturned ==
  LET n == Cardinality(types)
  IN /\ threads_created = n
     /\ threads = [s \in Slots |-> IF s < n THEN "joined" ELSE "empty"]
     /\ threads_size = Min(n, thread_count)
     /\ wpc = [s \in Slots |-> IF s < n THEN "done" ELSE "none"]
     /\ mutex = NoHolder
     /\ errors = failed
     /\ jidx = Min(n, thread_count)
     /\ parsed = [t \in 1 .. MaxTypes |-> IF t <= n THEN 1 ELSE 0]
     /\ warned = failed
     /\ mpc = "returned"
     /\ parse_failed = failed
     /\ sanity = NotRun
     /\ versions = NotRun
     /\ exit_status = NoStatus

\* compileHeaders is entered: bool failed = false; the matrix is known to
\* the pool by its size alone.
Init ==
  /\ threads_created = 0
  /\ threads = [s \in Slots |-> "empty"]
  /\ threads_size = thread_count
  /\ wpc = [s \in Slots |-> "none"]
  /\ mutex = NoHolder
  /\ errors = FALSE
  /\ jidx = 0
  /\ parsed = [t \in 1 .. MaxTypes |-> 0]
  /\ warned = FALSE
  /\ mpc = "loop"
  /\ failed = FALSE
  /\ types = {}
  /\ database = <<>>
  /\ symbol_database = <<>>
  /\ verbose = FALSE
  /\ dump = FALSE
  /\ platform_dir = FALSE
  /\ output_path = FALSE
  /\ force = FALSE
  /\ parse_failed = FALSE
  /\ sanity = NotRun
  /\ versions = NotRun
  /\ exit_status = NoStatus

Next ==
  \/ LoopBegin
  \/ LoopJoin
  \/ LoopSpawn
  \/ Resize
  \/ JoinAll
  \/ Return
  \/ \E s \in Slots : Worker(s)

Spec == Init /\ [][Next]_vars

\* sanityCheck over every HeaderDatabase of at most MaxDecls declarations.
InitSanity ==
  /\ types \in Matrices
  /\ DatabaseOfAtMost(MaxDecls, DeclKinds(BOOLEAN))
  /\ symbol_database = <<>>
  /\ verbose = FALSE
  /\ dump = FALSE
  /\ platform_dir = FALSE
  /\ output_path = FALSE
  /\ force = FALSE
  /\ failed = FALSE
  /\ InitReturned

NextSanity == MainSanityCheck \/ MainReturn

SpecSanity == InitSanity /\ [][NextSanity]_vars

\* checkVersions (-p given) over HeaderDatabases of declarations that are no
\* definitions, and the platform's symbol databases.
InitVersions ==
  /\ types \in Matrices
  /\ DatabaseOfAtMost(MaxDecls, DeclKinds({FALSE}))
  /\ symbol_database \in SymbolDatabases(types)
  /\ verbose \in BOOLEAN
  /\ dump = FALSE
  /\ platform_dir = TRUE
  /\ output_path = FALSE
  /\ force = FALSE
  /\ failed = FALSE
  /\ InitReturned

NextVersions == MainSanityCheck \/ MainCheckVersions \/ MainReturn

SpecVersions == InitVersions /\ [][NextVersions]_vars

\* main under every combination of its options, over HeaderDatabases of one
\* declaration.  parsePlatforms is called only when -p is given.
InitMain ==
  /\ types = generateCompilationTypes({"arm"}, supported_levels)
  /\ DatabaseOfAtMost(1, DeclKinds(BOOLEAN))
  /\ platform_dir \in BOOLEAN
  /\ symbol_database \in IF platform_dir THEN SymbolDatabases(types) ELSE {<<>>}
  /\ verbose \in BOOLEAN
  /\ dump \in BOOLEAN
  /\ output_path \in BOOLEAN
  /\ force \in BOOLEAN
  /\ failed \in BOOLEAN
  /\ InitReturned

NextMain ==
  \/ MainDump
  \/ MainSanityCheck
  \/ MainCheckVersions
  \/ MainPreprocess
  \/ MainReturn

SpecMain == InitMain /\ [][NextMain]_vars

(***************************************************************************)
(* Properties of compileHeaders (Spec)                                     *)
(***************************************************************************)

Started == {s \in Slots : wpc[s] # "none"}

Running == {s \in Slots : wpc[s] \notin {"none", "done"}}

InFlight == {s \in Slots : threads[s] = "joinable"}

\* C2: when compileHeaders returns, every worker thread it started has
\* finished and has been joined, whatever the size of the matrix; nothing
\* after the return (dump, sanityCheck, checkVersions) overlaps a worker.
C2_AllJoinedAtReturn ==
  mpc = "returned" =>
    /\ Running = {}
    /\ InFlight = {}
    /\ \A s \in Started : threads[s] = "joined"
    /\ Cardinality(Started) = Min(threads_created, thread_count)

C2_Witness ==
  /\ mpc = "returned"
  /\ threads_created > thread_count
  /\ \A s \in Slots : threads[s] = "joined"

\* C3: at most thread_count workers are in flight, and a slot is handed a new
\* configuration only once the worker that held it has finished and been
\* joined: when the caller is about to start a thread in a slot, that slot
\* holds no joinable thread and no running worker.
C3_BoundedPool ==
  /\ Cardinality(InFlight) <= thread_count
  /\ Running \subseteq InFlight
  /\ mpc = "spawn" =>
       /\ threads[ThreadId] # "joinable"
       /\ ThreadId \notin Running
       /\ threads_created > thread_count => threads[ThreadId] = "joined"
  /\ mpc # "crashed"

C3_Witness ==
  /\ threads_created > thread_count
  /\ mpc = "loop"
  /\ ThreadId \in Running
  /\ Cardinality(Running) = thread_count

\* C4: the parse phase is fail-slow: when compileHeaders returns, every
\* configuration of the matrix has had exactly one Header Parser run,
\* every worker has run to its end, and failed is true if some AST carried
\* warnings or errors and still false if none did.
C4_FailSlow ==
  mpc = "returned" =>
    /\ \A t \in 1 .. MaxTypes : parsed[t] = IF t <= threads_created THEN 1 ELSE 0
    /\ \A s \in Started : wpc[s] = "done"
    /\ failed = warned

C4_Witness ==
  /\ mpc = "returned"
  /\ threads_created > thread_count
  /\ warned
  /\ failed

\* While one worker holds the mutex after a failed parse, others go on
\* parsing and inserting.
C4_SiblingsContinue ==
  /\ errors
  /\ \E s \in Slots : wpc[s] = "insert"
  /\ \E s \in Slots : wpc[s] = "asts"

Inserting == {s \in Slots : wpc[s] = "insert"}

\* C10 as stated: every parseAST call of a worker runs with the shared
\* mutex held by that worker (and so one at a time).
C10_InsertUnderLock == \A s \in Inserting : mutex = s

\* C10 as amended: the shared mutex guards the failure flag alone.  A worker
\* holds it exactly between taking it to set errors and the closing brace
\* of the if, and has released it before it calls parseAST: no worker is
\* inside parseAST with the mutex held, and the mutex does not keep several
\* workers from being inside parseAST together.
C10_LockGuardsFlagOnly ==
  /\ \A s \in Slots : (mutex = s) <=> (wpc[s] = "locked")
  /\ \A s \in Inserting : mutex # s
  /\ Cardinality({s \in Slots : wpc[s] = "locked"}) <= 1
  /\ (mutex # NoHolder) => errors

\* Two workers inside parseAST while a third holds the mutex.
C10_Witness ==
  /\ Cardinality(Inserting) >= 2
  /\ mutex # NoHolder
  /\ wpc[mutex] = "locked"

(***************************************************************************)
(* Properties of sanityCheck (SpecSanity)                                  *)
(***************************************************************************)

Declarations(symbol) == {symbol.declarations[k] : k \in DOMAIN symbol.declarations}

\* (a) more than one of the symbol's declarations is a definition
MultipleDefinitions(symbol) ==
  Cardinality({k \in DOMAIN symbol.declarations :
                 symbol.declarations[k].is_definition}) > 1

\* (b) a declaration that is a definition carries availability
VersionedDefinition(symbol) ==
  \E d \in Declarations(symbol) : d.is_definition /\ d.availability # {}

\* (c) the merged availability of the symbol cannot be calculated
InconsistentAvailability(symbol) == ~calculateSymbolAvailability(symbol).ok

\* a declaration whose own availability cannot be calculated
BadDeclaration(symbol) ==
  \E d \in Declarations(symbol) : ~calculateDeclarationAvailability(d).ok

Violates(symbol) ==
  \/ MultipleDefinitions(symbol)
  \/ VersionedDefinition(symbol)
  \/ InconsistentAvailability(symbol)

Reported == {r[1] : r \in sanity.reports}

ViolatedRules(symbol) ==
  {m \in {"multiple definitions", "failed to calculate availability",
          "inline definition has non-empty versioning information",
          "inconsistent availability"} :
     \/ m = "multiple definitions" /\ MultipleDefinitions(symbol)
     \/ m = "failed to calculate availability" /\ BadDeclaration(symbol)
     \/ m = "inline definition has non-empty versioning information"
          /\ VersionedDefinition(symbol)
     \/ m = "inconsistent availability" /\ InconsistentAvailability(symbol)}

\* C8 as stated: every violated rule of every symbol is reported before
\* sanityCheck returns.
C8_ReportsEveryViolation ==
  sanity.run =>
    \A n \in DOMAIN database :
      \A m \in ViolatedRules(database[n]) : <<n, m>> \in sanity.reports

\* C8 as amended: sanityCheck does not stop at the first failing symbol:
\* every symbol that violates a rule gets one report, which names a rule it
\* does violate, a symbol that violates none gets no report, and the verdict
\* is fail exactly when something was reported.  Within one symbol
\* checkSymbol returns at its first violation.
C8_ReportsEverySymbol ==
  sanity.run =>
    /\ \A n \in DOMAIN database :
         LET mine == {r \in sanity.reports : r[1] = n}
         IN IF ViolatedRules(database[n]) # {}
              THEN /\ Cardinality(mine) = 1
                   /\ \A r \in mine : r[2] \in ViolatedRules(database[n])
              ELSE mine = {}
    /\ \A r \in sanity.reports : r[1] \in DOMAIN database
    /\ sanity.ok <=> (sanity.reports = {})

\* Two violating symbols, both reported, one of them violating two rules.
C8_Witness ==
  /\ sanity.run
  /\ Cardinality(Reported) = 2
  /\ \E n \in DOMAIN database : Cardinality(ViolatedRules(database[n])) > 1

(***************************************************************************)
(* Properties of checkVersions (SpecVersions)                              *)
(***************************************************************************)

Returned(v) == v.run /\ ~v.aborted

\* C5: an extra-availability divergence makes checkVersions return fail,
\* verbose or not.
C5_ExtraAlwaysFails ==
  Returned(versions) => (versions.extra_availability # {} => ~versions.ok)

\* C6 as stated: once main has called checkVersions, the call deals with
\* every (symbol of the HeaderDatabase, type of the matrix) pair and returns
\* its verdict; it does not end the process part-way, even when sanityCheck
\* has just failed the database.
C6_NeverAborts ==
  versions.run =>
    /\ ~versions.aborted
    /\ versions.visited = (DOMAIN database) \X types

\* C6 as amended: checkVersions ends the process part-way (errx, status 1)
\* exactly when the merged availability of some symbol of the
\* HeaderDatabase cannot be calculated, which sanityCheck has then just
\* reported; in every other case it deals with every (symbol, type) pair
\* and returns its verdict.
C6_AbortsOnlyOnAvailability ==
  versions.run =>
    /\ versions.aborted <=>
         (\E n \in DOMAIN database : InconsistentAvailability(database[n]))
    /\ versions.aborted =>
         /\ mpc = "exited"
         /\ exit_status = 1
         /\ sanity.run /\ ~sanity.ok
    /\ ~versions.aborted => versions.visited = (DOMAIN database) \X types

\* The process ended inside checkVersions, behind a consistent symbol that
\* the loop had already dealt with.
C6_Witness ==
  /\ versions.run
  /\ versions.aborted
  /\ exit_status = 1
  /\ versions.visited # {}
  /\ \E n \in DOMAIN database : ~InconsistentAvailability(database[n])

\* Every pair dealt with and a verdict returned.
C6_WitnessReturned ==
  /\ Returned(versions)
  /\ Cardinality(DOMAIN database) = 2
  /\ versions.visited = (DOMAIN database) \X types
  /\ ~versions.ok

\* C9 as stated: completely_unavailable holds the symbols the platform
\* exports and no header declares, and never fails the run by itself.
C9_PlatformOnlySymbols ==
  Returned(versions) =>
    versions.completely_unavailable = DOMAIN symbol_database \ DOMAIN database

Diverging ==
  {p[1] : p \in versions.missing_availability \cup versions.extra_availability}

\* C9 as amended: completely_unavailable holds the symbols the headers
\* declare and the platform does not export at all; a symbol in it has no
\* divergence recorded, and checkVersions fails only for a symbol outside it.
C9_HeaderOnlySymbols ==
  Returned(versions) =>
    /\ versions.completely_unavailable = DOMAIN database \ DOMAIN symbol_database
    /\ Diverging \cap versions.completely_unavailable = {}
    /\ ~versions.ok =>
         \E n \in versions.printed :
           n \in Diverging /\ n \notin versions.completely_unavailable

C9_Witness ==
  /\ Returned(versions)
  /\ versions.ok
  /\ versions.completely_unavailable # {}
  /\ DOMAIN symbol_database \ DOMAIN database # {}

(***************************************************************************)
(* Properties of main (SpecMain)                                           *)
(***************************************************************************)

\* C1: main returns 0 only if no phase reported a failure: the parse phase
\* reported nothing, sanityCheck (when it ran) passed and checkVersions
\* (when it ran) returned pass.
C1_ExitStatus ==
  (mpc = "exited" /\ exit_status = 0) =>
    /\ ~parse_failed
    /\ sanity.run => sanity.ok
    /\ versions.run => (Returned(versions) /\ versions.ok)

(***************************************************************************)
(* compileHeaders: the order in which slots are waited for                 *)
(***************************************************************************)

\* The caller is inside threads[thread_id].join() and the worker of that
\* slot has not finished.
Blocked == mpc = "join" /\ threads[ThreadId] = "joinable" /\ wpc[ThreadId] # "done"

\* The slots other than the one waited for whose worker has finished.
FinishedElsewhere ==
  {j \in Slots \ {ThreadId} : threads[j] = "joinable" /\ wpc[j] = "done"}

\* C11: with more configurations than slots, the caller is never blocked on
\* the slot of a running worker while a configuration is pending and the
\* worker of another slot has already finished.
C11_NeverBlockedWhileFree == ~(Blocked /\ FinishedElsewhere # {})

\* C11, as the code has it: slots are waited for in round-robin order. While
\* the worker of the slot whose turn it is runs, the caller hands out no
\* configuration, whatever the other slots' workers have done; a thread is
\* only ever started in the slot whose turn it is.
C11_RoundRobinBlocking ==
  [][ /\ Blocked => /\ mpc' = "join"
                    /\ threads' = threads
                    /\ threads_created' = threads_created
      /\ \A s \in Slots :
           (threads[s] # "joinable" /\ threads'[s] = "joinable") =>
             (mpc = "spawn" /\ s = ThreadId) ]_vars

\* The caller waits for the slot whose turn it is while every other slot's
\* worker has finished.
C11_Witness ==
  /\ Blocked
  /\ threads_created > thread_count
  /\ FinishedElsewhere = Slots \ {ThreadId}

(***************************************************************************)
(* compileHeaders: joins and assignments of the thread vector              *)
(***************************************************************************)

\* C12: whatever the size of the matrix, join is only called on a slot that
\* holds a joinable thread, a thread is only assigned to a slot that holds
\* none, and no started thread is left unjoined at the return, so neither
\* std::thread::join nor the move assignment terminates the process.
C12_BookkeepingNeverCrashes ==
  /\ mpc # "crashed"
  /\ mpc = "join" => threads[ThreadId] = "joinable"
  /\ mpc = "spawn" => threads[ThreadId] \in {"empty", "joined"}
  /\ (mpc = "joinall" /\ jidx < threads_size) => threads[jidx] = "joinable"
  /\ threads_size = IF mpc \in {"joinall", "returned"}
                      THEN Min(threads_created, thread_count)
                      ELSE thread_count
  /\ mpc = "returned" =>
       \A s \in Slots : threads[s] = IF s < threads_size THEN "joined" ELSE "empty"

\* The final loop is about to join a slot that was joined and assigned again
\* in the first loop.
C12_Witness ==
  /\ mpc = "joinall"
  /\ threads_created > thread_count
  /\ jidx = 0
  /\ threads[jidx] = "joinable"
  /\ wpc[jidx] = "done"

\* The matrix sizes 0, below, at and above thread_count all return.
C12_ReturnsEmpty == mpc = "returned" /\ threads_created = 0

C12_ReturnsPartial == mpc = "returned" /\ threads_created \in 1 .. (thread_count - 1)

C12_ReturnsFull == mpc = "returned" /\ threads_created = thread_count

====
